---- MODULE Spec2Model ----
(***************************************************************************)
(* Issue lifecycle and assignment authorization of the civic-issue         *)
(* backend (backend/app/routes/assignments.py, routes/issues.py,           *)
(* routes/auth.py).  The store tables are functions from row id to row;    *)
(* a request handler is one action that runs to completion, and in the     *)
(* concurrent specifications one action per store call.                    *)
(***************************************************************************)
EXTENDS Integers, Naturals, Sequences, FiniteSets, TLC

\* ---------------------------------------------------------------- bounds
MaxIssues == 2
MaxAssignments == 2
MaxBulk == 2
MaxVotes == 2
MaxUpdates == 1
MaxWorkers == 2

\* ------------------------------------------------------- request inputs
None == "None"
Unset == "Unset"

Users == {"admin1", "sup1", "staff1", "staff2", "cit1"}
StaffIdInputs == {"staff1", "staff2", "cit1", "ghost"}
CitizenIdInputs == {"cit1"}
IssueIdInputs == 1..MaxIssues
AssignmentIdInputs == 1..MaxAssignments
IssueCreators == {"cit1", "admin1"}
NotesInputs == {None}
NotesUpdates == {Unset, "n"}
AssignmentStatus == {"assigned", "in_progress", "completed"}
IssueStatus == {"pending", "in_progress", "resolved"}

RECURSIVE SeqsUpTo(_, _)
SeqsUpTo(S, n) ==
    IF n = 0 THEN {<<>>}
    ELSE LET shorter == SeqsUpTo(S, n - 1)
         IN shorter \cup {Append(q, x) : q \in {p \in shorter : Len(p) = n - 1}, x \in S}

BulkIdLists == SeqsUpTo(IssueIdInputs, MaxBulk) \ {<<>>}

\* ---------------------------------------------------------------- state
VARIABLES profiles, issues, assignments, nextIssueId, nextAssignmentId, response,
          votes, issue_updates, nextVoteId, nextUpdateId, role_requests, inflight

vars == <<profiles, issues, assignments, nextIssueId, nextAssignmentId, response,
          votes, issue_updates, nextVoteId, nextUpdateId, role_requests, inflight>>

InitProfiles ==
    [u \in Users |->
        CASE u = "admin1" -> [role |-> "admin", department |-> None]
          [] u = "sup1"   -> [role |-> "supervisor", department |-> "d1"]
          [] u = "staff1" -> [role |-> "staff", department |-> "d1"]
          [] u = "staff2" -> [role |-> "staff", department |-> "d2"]
          [] OTHER        -> [role |-> "citizen", department |-> None]]

EmptyTable == [x \in {} |-> None]

Resp(op, code, notified) ==
    [op |-> op, code |-> code, detail |-> None, notified |-> notified,
     processed |-> 0, failed |-> 0, errors |-> <<>>]

\* The requests being served: one slot per worker, holding the handler's
\* position and the values it has read so far.
Workers == 1..MaxWorkers

Idle == [op |-> "idle", pc |-> 0, id |-> 0, staff_id |-> None, issue_id |-> 0,
         seen |-> None]

Init ==
    /\ profiles = InitProfiles
    /\ issues = EmptyTable
    /\ assignments = EmptyTable
    /\ nextIssueId = 1
    /\ nextAssignmentId = 1
    /\ response = Resp("none", 0, None)
    /\ votes = EmptyTable
    /\ issue_updates = EmptyTable
    /\ nextVoteId = 1
    /\ nextUpdateId = 1
    /\ role_requests = {}
    /\ inflight = [w \in Workers |-> Idle]

\* ------------------------------------------------------ store operations
\* get_data("profiles", {"id": id})
get_profile(id) == IF id \in DOMAIN profiles THEN {profiles[id]} ELSE {}

\* get_data("issue_assignments", {"issue_id": i}) over a table value
assignments_of_issue(asg, i) == {a \in DOMAIN asg : asg[a].issue_id = i}

\* Variant of existing_assignments without the status filter.
existing_assignments_any_status(asg, i, s) ==
    {a \in DOMAIN asg : asg[a].issue_id = i /\ asg[a].staff_id = s}

\* get_data("issue_assignments", {"issue_id": i, "staff_id": s,
\*                                "status": ["assigned", "in_progress"]})
existing_assignments(asg, i, s) ==
    {a \in DOMAIN asg : /\ asg[a].issue_id = i
                        /\ asg[a].staff_id = s
                        /\ asg[a].status \in {"assigned", "in_progress"}}

insert_row(table, id, row) == table @@ (id :> row)

delete_row(table, id) == [x \in DOMAIN table \ {id} |-> table[x]]

\* update_data("issues", {"id": id}, {"status": status}): rows that match
set_issue_status(iss, id, status) ==
    IF id \in DOMAIN iss THEN [iss EXCEPT ![id].status = status] ELSE iss

\* ------------------------------------------------------------- auth.py
require_roles(allowed_roles, actor) == profiles[actor].role \in allowed_roles

\* ------------------------------------------------- assignments.py helpers
\* Variant of supervisor_outside_department with the comparison dropped.
supervisor_any_department(actor, staff_member) == FALSE

\* create_assignment / bulk_assign_issues: supervisors may only assign staff
\* of their own department.
supervisor_outside_department(actor, staff_member) ==
    /\ profiles[actor].role = "supervisor"
    /\ profiles[actor].department # staff_member.department

\* Variant of supervisor_denied that compares nothing.
supervisor_never_denied(actor, row) == FALSE

\* update_assignment / delete_assignment: the supervisor branch looks the
\* assigned staff member up and compares departments when a profile is found.
supervisor_denied(actor, row) ==
    /\ profiles[actor].role = "supervisor"
    /\ \E staff_data \in get_profile(row.staff_id) :
           staff_data.department # profiles[actor].department

\* update_assignment permission check: only the staff and supervisor
\* branches exist; every other role falls through.
update_denied(actor, row) ==
    \/ profiles[actor].role = "staff" /\ row.staff_id # actor
    \/ supervisor_denied(actor, row)

\* Row written by insert_data("issue_assignments", ...); the status column
\* takes the store's default.
new_assignment(issue_id, staff_id, assigned_by, notes) ==
    [issue_id |-> issue_id, staff_id |-> staff_id, assigned_by |-> assigned_by,
     status |-> "assigned", notes |-> notes]

\* Variant of issues_after_create that leaves the issue as it was.
issues_after_create_never(iss, issue_id) == iss

\* Variant of issues_after_create that marks the issue in_progress whatever
\* its status.
issues_after_create_always(iss, issue_id) ==
    set_issue_status(iss, issue_id, "in_progress")

\* "Update issue status to in_progress if it was pending"; issue is the row
\* the handler read before the insert.
issues_after_create(iss, issue_id) ==
    IF iss[issue_id].status = "pending"
    THEN set_issue_status(iss, issue_id, "in_progress")
    ELSE iss

\* assignment_update.dict(exclude_unset=True) applied to the row
updated_row(row, status, notes) ==
    IF notes = Unset
    THEN [row EXCEPT !.status = status]
    ELSE [row EXCEPT !.status = status, !.notes = notes]

\* Variant of all_completed written with any() in place of all().
any_completed(asg, issue_id) ==
    \E a \in assignments_of_issue(asg, issue_id) : asg[a].status = "completed"

\* all(a["status"] == "completed" for a in all_assignments)
all_completed(asg, issue_id) ==
    \A a \in assignments_of_issue(asg, issue_id) : asg[a].status = "completed"

\* Variant of issues_after_update whose in_progress branch only moves a
\* pending issue.
issues_after_update_pending_only(iss, asg, issue_id, status) ==
    IF status = "completed"
    THEN IF all_completed(asg, issue_id)
         THEN set_issue_status(iss, issue_id, "resolved")
         ELSE iss
    ELSE IF status = "in_progress" /\ iss[issue_id].status = "pending"
         THEN set_issue_status(iss, issue_id, "in_progress")
         ELSE iss

\* "Update issue status based on assignment status", asg being the table
\* after the assignment row was written.
issues_after_update(iss, asg, issue_id, status) ==
    IF status = "completed"
    THEN IF all_completed(asg, issue_id)
         THEN set_issue_status(iss, issue_id, "resolved")
         ELSE iss
    ELSE IF status = "in_progress"
         THEN set_issue_status(iss, issue_id, "in_progress")
         ELSE iss

\* notify_issue_resolved is called when the issue and its citizen are found
resolution_notified(iss, asg, issue_id, status) ==
    /\ status = "completed"
    /\ all_completed(asg, issue_id)
    /\ issue_id \in DOMAIN iss
    /\ get_profile(iss[issue_id].citizen_id) # {}

\* Variant of issues_after_delete that re-evaluates the issue against the
\* remaining assignments.
issues_after_delete_reevaluate(iss, asg, issue_id) ==
    IF assignments_of_issue(asg, issue_id) = {}
    THEN set_issue_status(iss, issue_id, "pending")
    ELSE IF all_completed(asg, issue_id)
    THEN set_issue_status(iss, issue_id, "resolved")
    ELSE iss

\* Variant of issues_after_delete that resets the issue after every delete.
issues_after_delete_always(iss, asg, issue_id) ==
    set_issue_status(iss, issue_id, "pending")

\* Variant of issues_after_delete that forgets the reset to pending.
issues_after_delete_no_reset(iss, asg, issue_id) == iss

\* "Update issue status if no more assignments exist", asg being the table
\* after the delete.
issues_after_delete(iss, asg, issue_id) ==
    IF assignments_of_issue(asg, issue_id) = {}
    THEN set_issue_status(iss, issue_id, "pending")
    ELSE iss

\* try: NotificationService.notify_...(...) / except Exception as e:
\* logger.warning(...): whether or not the delivery succeeded (notify_ok),
\* the handler goes on with the result r it had reached.
notify_guarded(r, notify_ok) == r

\* ------------------------------------------------------ handler results
\* Each handler is a function of the request and the store: the response
\* code and detail, what was notified, and the tables it leaves behind.
Result(code, detail, notified, asg, iss, nextA) ==
    [code |-> code, detail |-> detail, notified |-> notified,
     assignments |-> asg, issues |-> iss, nextAssignmentId |-> nextA,
     processed |-> 0, failed |-> 0, errors |-> <<>>]

Rejected(code, detail) ==
    Result(code, detail, None, assignments, issues, nextAssignmentId)

create_assignment_result(actor, issue_id, staff_id, notes) ==
    IF ~require_roles({"admin", "supervisor"}, actor)
    THEN Rejected(403, "Access denied")
    ELSE IF issue_id \notin DOMAIN issues
    THEN Rejected(404, "Issue not found")
    ELSE IF get_profile(staff_id) = {}
    THEN Rejected(404, "Staff member not found")
    ELSE IF profiles[staff_id].role # "staff"
    THEN Rejected(400, "User is not a staff member")
    ELSE IF supervisor_outside_department(actor, profiles[staff_id])
    THEN Rejected(403, "Cannot assign to staff outside your department")
    ELSE IF existing_assignments(assignments, issue_id, staff_id) # {}
    THEN Rejected(400, "Issue is already assigned to this staff member")
    ELSE Result(201, None, "assigned",
                insert_row(assignments, nextAssignmentId,
                           new_assignment(issue_id, staff_id, actor, notes)),
                issues_after_create(issues, issue_id),
                nextAssignmentId + 1)

\* update_assignment run against the tables asg and iss
update_assignment_on(asg, iss, actor, assignment_id, status, notes) ==
    IF assignment_id \notin DOMAIN asg
    THEN Result(404, "Assignment not found", None, asg, iss, nextAssignmentId)
    ELSE IF update_denied(actor, asg[assignment_id])
    THEN Result(403, "Not authorized to update", None, asg, iss, nextAssignmentId)
    ELSE LET existing_assignment == asg[assignment_id]
             issue_id == existing_assignment.issue_id
             asg2 == [asg EXCEPT
                         ![assignment_id] = updated_row(existing_assignment, status, notes)]
             iss2 == issues_after_update(iss, asg2, issue_id, status)
         IN Result(200, None,
                   IF resolution_notified(iss2, asg2, issue_id, status)
                   THEN "resolved" ELSE None,
                   asg2, iss2, nextAssignmentId)

update_assignment_result(actor, assignment_id, status, notes) ==
    update_assignment_on(assignments, issues, actor, assignment_id, status, notes)

delete_assignment_result(actor, assignment_id) ==
    IF ~require_roles({"admin", "supervisor"}, actor)
    THEN Rejected(403, "Access denied")
    ELSE IF assignment_id \notin DOMAIN assignments
    THEN Rejected(404, "Assignment not found")
    ELSE IF supervisor_denied(actor, assignments[assignment_id])
    THEN Rejected(403, "Not authorized to delete assignments outside your department")
    ELSE LET issue_id == assignments[assignment_id].issue_id
             asg == delete_row(assignments, assignment_id)
         IN Result(200, None, None, asg, issues_after_delete(issues, asg, issue_id),
                   nextAssignmentId)

\* One pass of the bulk_assign_issues loop body over the running tables.
bulk_step(st, issue_id, staff_id, actor, notes) ==
    IF issue_id \notin DOMAIN st.issues
    THEN [st EXCEPT !.failed = @ + 1,
                    !.errors = Append(@, [issue_id |-> issue_id, error |-> "not found"])]
    ELSE IF existing_assignments(st.assignments, issue_id, staff_id) # {}
    THEN [st EXCEPT !.failed = @ + 1,
                    !.errors = Append(@, [issue_id |-> issue_id,
                                          error |-> "already assigned"])]
    ELSE [st EXCEPT !.assignments = insert_row(@, st.nextAssignmentId,
                                        new_assignment(issue_id, staff_id, actor, notes)),
                    !.issues = issues_after_create(@, issue_id),
                    !.nextAssignmentId = @ + 1,
                    !.processed = @ + 1]

\* Variant of bulk_loop that gives up at the first issue that fails.
RECURSIVE bulk_loop_stop_on_failure(_, _, _, _, _)
bulk_loop_stop_on_failure(st, issue_ids, staff_id, actor, notes) ==
    IF issue_ids = <<>> \/ st.failed > 0 THEN st
    ELSE bulk_loop_stop_on_failure(
             bulk_step(st, Head(issue_ids), staff_id, actor, notes),
             Tail(issue_ids), staff_id, actor, notes)

RECURSIVE bulk_loop(_, _, _, _, _)
bulk_loop(st, issue_ids, staff_id, actor, notes) ==
    IF issue_ids = <<>> THEN st
    ELSE bulk_loop(bulk_step(st, Head(issue_ids), staff_id, actor, notes),
                   Tail(issue_ids), staff_id, actor, notes)

\* Variant of bulk_assign_issues_result that runs the loop without
\* validating the staff member or the department first.
bulk_assign_issues_unchecked(actor, issue_ids, staff_id, notes) ==
    IF ~require_roles({"admin", "supervisor"}, actor)
    THEN Rejected(403, "Access denied")
    ELSE bulk_loop(Result(200, None, None, assignments, issues, nextAssignmentId),
                   issue_ids, staff_id, actor, notes)

bulk_assign_issues_result(actor, issue_ids, staff_id, notes) ==
    IF ~require_roles({"admin", "supervisor"}, actor)
    THEN Rejected(403, "Access denied")
    ELSE IF get_profile(staff_id) = {} \/ profiles[staff_id].role # "staff"
    THEN Rejected(404, "Staff member not found")
    ELSE IF supervisor_outside_department(actor, profiles[staff_id])
    THEN Rejected(403, "Cannot assign to staff outside your department")
    ELSE bulk_loop(Result(200, None, None, assignments, issues, nextAssignmentId),
                   issue_ids, staff_id, actor, notes)

\* ------------------------------------------------------------- actions
Respond(op, result) ==
    \E r \in {result} :
        /\ r.nextAssignmentId <= MaxAssignments + 1
        /\ assignments' = r.assignments
        /\ issues' = r.issues
        /\ nextAssignmentId' = r.nextAssignmentId
        /\ response' = [op |-> op, code |-> r.code, detail |-> r.detail,
                        notified |-> r.notified,
                        processed |-> r.processed, failed |-> r.failed,
                        errors |-> r.errors]

\* routes/issues.py create_issue: the citizen_id is forced for citizens and
\* defaults to the caller otherwise; the insert carries no status, so the
\* row starts with the store's default, pending (the value that
\* create_issue_with_image writes explicitly).
create_issue(actor, citizen_id) ==
    /\ nextIssueId <= MaxIssues
    /\ LET owner == IF profiles[actor].role = "citizen" \/ citizen_id = None
                    THEN actor ELSE citizen_id
       IN issues' = insert_row(issues, nextIssueId,
                               [status |-> "pending", citizen_id |-> owner])
    /\ nextIssueId' = nextIssueId + 1
    /\ response' = Resp("create_issue", 201, "created")
    /\ UNCHANGED <<profiles, assignments, nextAssignmentId, votes, issue_updates,
                   nextVoteId, nextUpdateId, role_requests, inflight>>

create_assignment(actor, issue_id, staff_id, notes) ==
    /\ Respond("create_assignment",
               create_assignment_result(actor, issue_id, staff_id, notes))
    /\ UNCHANGED <<profiles, nextIssueId, votes, issue_updates, nextVoteId,
                   nextUpdateId, role_requests, inflight>>

update_assignment(actor, assignment_id, status, notes) ==
    /\ Respond("update_assignment",
               update_assignment_result(actor, assignment_id, status, notes))
    /\ UNCHANGED <<profiles, nextIssueId, votes, issue_updates, nextVoteId,
                   nextUpdateId, role_requests, inflight>>

delete_assignment(actor, assignment_id) ==
    /\ Respond("delete_assignment", delete_assignment_result(actor, assignment_id))
    /\ UNCHANGED <<profiles, nextIssueId, votes, issue_updates, nextVoteId,
                   nextUpdateId, role_requests, inflight>>

bulk_assign_issues(actor, issue_ids, staff_id, notes) ==
    /\ Respond("bulk_assign_issues",
               bulk_assign_issues_result(actor, issue_ids, staff_id, notes))
    /\ UNCHANGED <<profiles, nextIssueId, votes, issue_updates, nextVoteId,
                   nextUpdateId, role_requests, inflight>>

Next ==
    \/ \E actor \in IssueCreators, citizen_id \in CitizenIdInputs :
           create_issue(actor, citizen_id)
    \/ \E actor \in Users, issue_id \in IssueIdInputs, staff_id \in StaffIdInputs,
          notes \in NotesInputs :
           create_assignment(actor, issue_id, staff_id, notes)
    \/ \E actor \in Users, assignment_id \in AssignmentIdInputs,
          status \in AssignmentStatus, notes \in NotesUpdates :
           update_assignment(actor, assignment_id, status, notes)
    \/ \E actor \in Users, assignment_id \in AssignmentIdInputs :
           delete_assignment(actor, assignment_id)
    \/ \E actor \in Users, issue_ids \in BulkIdLists, staff_id \in StaffIdInputs,
          notes \in NotesInputs :
           bulk_assign_issues(actor, issue_ids, staff_id, notes)

Spec == Init /\ [][Next]_vars

\* ------------------------------------------- issues.py and updates.py
IssueStatusInputs == IssueStatus \cup {Unset}
Voters == {"cit1", "staff1"}
Assigners == {"admin1"}
Assignees == {"staff1", "staff2"}

\* The four tables the issue routes write
Store ==
    [issues |-> issues, issue_votes |-> votes, issue_updates |-> issue_updates,
     issue_assignments |-> assignments]

IssueResult(code, detail, st) == [code |-> code, detail |-> detail, store |-> st]

\* delete_data(table, {"issue_id": issue_id})
delete_by_issue(table, issue_id) ==
    [x \in {y \in DOMAIN table : table[y].issue_id # issue_id} |-> table[x]]

\* One delete_data call of the issue deletion
delete_step(st, table_name, issue_id) ==
    IF table_name = "issues"
    THEN [st EXCEPT !.issues = delete_row(@, issue_id)]
    ELSE [st EXCEPT ![table_name] = delete_by_issue(@, issue_id)]

\* Variant of delete_order that removes the issue row first.
delete_order_issue_first ==
    <<"issues", "issue_votes", "issue_updates", "issue_assignments">>

\* "Delete related records first", then the issue row
delete_order == <<"issue_votes", "issue_updates", "issue_assignments", "issues">>

RECURSIVE delete_steps(_, _, _)
delete_steps(st, table_names, issue_id) ==
    IF table_names = <<>> THEN st
    ELSE delete_steps(delete_step(st, Head(table_names), issue_id),
                      Tail(table_names), issue_id)

\* Variant of delete_issue_allowed that admits every authenticated caller.
delete_issue_allowed_anyone(actor) == TRUE

\* Depends(require_roles(["admin"])) of delete_issue
delete_issue_allowed(actor) == require_roles({"admin"}, actor)

delete_issue_result(actor, issue_id) ==
    IF ~delete_issue_allowed(actor)
    THEN IssueResult(403, "Access denied", Store)
    ELSE IF issue_id \notin DOMAIN issues
    THEN IssueResult(404, "Issue not found", Store)
    ELSE IssueResult(200, "Issue deleted successfully",
                     delete_steps(Store, delete_order, issue_id))

\* PUT /{issue_id}: the handler depends on get_current_user only, ignores
\* issue_update, deletes the issue with its dependent rows and returns a
\* BaseResponse, which does not validate against response_model=IssueResponse.
update_issue_result(actor, issue_id, status) ==
    IF issue_id \notin DOMAIN issues
    THEN IssueResult(404, "Issue not found", Store)
    ELSE IssueResult(500, "Internal Server Error",
                     delete_steps(Store, delete_order, issue_id))

\* Variant of existing_votes that never finds a vote.
existing_votes_none(vt, issue_id, user_id) == {}

\* get_data("issue_votes", {"issue_id": issue_id, "user_id": user_id})
existing_votes(vt, issue_id, user_id) ==
    {v \in DOMAIN vt : vt[v].issue_id = issue_id /\ vt[v].user_id = user_id}

vote_issue_result(actor, issue_id) ==
    IF issue_id \notin DOMAIN issues
    THEN IssueResult(404, "Issue not found", Store)
    ELSE IF existing_votes(votes, issue_id, actor) # {}
    THEN IssueResult(400, "You have already voted on this issue", Store)
    ELSE IssueResult(200, None,
                     [Store EXCEPT !.issue_votes =
                         insert_row(@, nextVoteId,
                                    [issue_id |-> issue_id, user_id |-> actor])])

unvote_issue_result(actor, issue_id) ==
    IF existing_votes(votes, issue_id, actor) = {}
    THEN IssueResult(404, "Vote not found", Store)
    ELSE IssueResult(200, "Vote removed successfully",
                     [Store EXCEPT !.issue_votes =
                         [x \in DOMAIN votes \ existing_votes(votes, issue_id, actor)
                             |-> votes[x]]])

\* Variant of create_update_denied that lets every staff member and
\* supervisor through.
create_update_denied_never(actor, issue_id) == FALSE

\* updates.py create_issue_update permission checks
create_update_denied(actor, issue_id) ==
    \/ /\ profiles[actor].role = "staff"
       /\ \A a \in assignments_of_issue(assignments, issue_id) :
              assignments[a].staff_id # actor
    \/ /\ profiles[actor].role = "supervisor"
       /\ assignments_of_issue(assignments, issue_id) # {}
       /\ \A a \in assignments_of_issue(assignments, issue_id) :
              \A staff_data \in get_profile(assignments[a].staff_id) :
                  staff_data.department # profiles[actor].department

\* updates.py create_issue_update: the row is inserted, then the call of
\* update_data meets the local dict of the same name, and the handler's
\* except clause answers 500.
create_issue_update_result(actor, issue_id) ==
    IF profiles[actor].role \notin {"staff", "admin", "supervisor"}
    THEN IssueResult(403, "Not authorized to create updates", Store)
    ELSE IF issue_id \notin DOMAIN issues
    THEN IssueResult(404, "Issue not found", Store)
    ELSE IF create_update_denied(actor, issue_id)
    THEN IssueResult(403, IF profiles[actor].role = "staff"
                          THEN "You are not assigned to this issue"
                          ELSE "Issue is not assigned to staff in your department",
                     Store)
    ELSE IssueResult(500, "Failed to create update",
                     [Store EXCEPT !.issue_updates =
                         insert_row(@, nextUpdateId,
                                    [issue_id |-> issue_id, staff_id |-> actor])])

IssueRespond(op, result) ==
    \E r \in {result} :
        /\ issues' = r.store.issues
        /\ votes' = r.store.issue_votes
        /\ issue_updates' = r.store.issue_updates
        /\ assignments' = r.store.issue_assignments
        /\ nextVoteId' = IF DOMAIN r.store.issue_votes \subseteq DOMAIN votes
                         THEN nextVoteId ELSE nextVoteId + 1
        /\ nextUpdateId' = IF DOMAIN r.store.issue_updates \subseteq DOMAIN issue_updates
                           THEN nextUpdateId ELSE nextUpdateId + 1
        /\ nextVoteId' <= MaxVotes + 1
        /\ nextUpdateId' <= MaxUpdates + 1
        /\ response' = [Resp(op, r.code, None) EXCEPT !.detail = r.detail]
        /\ UNCHANGED <<profiles, nextIssueId, nextAssignmentId, role_requests, inflight>>

update_issue(actor, issue_id, status) ==
    IssueRespond("update_issue", update_issue_result(actor, issue_id, status))

delete_issue(actor, issue_id) ==
    IssueRespond("delete_issue", delete_issue_result(actor, issue_id))

vote_issue(actor, issue_id) ==
    IssueRespond("vote_issue", vote_issue_result(actor, issue_id))

unvote_issue(actor, issue_id) ==
    IssueRespond("unvote_issue", unvote_issue_result(actor, issue_id))

create_issue_update(actor, issue_id) ==
    IssueRespond("create_issue_update", create_issue_update_result(actor, issue_id))

IssueNext ==
    \/ \E actor \in IssueCreators, citizen_id \in CitizenIdInputs :
           create_issue(actor, citizen_id)
    \/ \E actor \in Assigners, issue_id \in IssueIdInputs, staff_id \in Assignees,
          notes \in NotesInputs :
           create_assignment(actor, issue_id, staff_id, notes)
    \/ \E actor \in Voters, issue_id \in IssueIdInputs : vote_issue(actor, issue_id)
    \/ \E actor \in Voters, issue_id \in IssueIdInputs : unvote_issue(actor, issue_id)
    \/ \E actor \in Users, issue_id \in IssueIdInputs :
           create_issue_update(actor, issue_id)
    \/ \E actor \in Users, issue_id \in IssueIdInputs, status \in IssueStatusInputs :
           update_issue(actor, issue_id, status)
    \/ \E actor \in Users, issue_id \in IssueIdInputs : delete_issue(actor, issue_id)

IssueSpec == Init /\ [][IssueNext]_vars

\* ------------------------------------------------------- read handlers
DepartmentInputs == {None, "d1", "d2"}
StaffFilterInputs == {None} \cup StaffIdInputs
\* "if issue_id:" takes 0 as no filter
IssueFilterInputs == {0} \cup IssueIdInputs
AssignmentStatusFilters == {None} \cup AssignmentStatus
IssueStatusFilters == {None} \cup IssueStatus
CitizenFilterInputs == {None} \cup CitizenIdInputs

\* get_data("profiles", {"department": department, "role": "staff"})
dept_staff(department) ==
    {u \in DOMAIN profiles :
        profiles[u].department = department /\ profiles[u].role = "staff"}

\* assignments.py get_assignment: response code for the actor
get_assignment_result(actor, assignment_id) ==
    IF assignment_id \notin DOMAIN assignments THEN 404
    ELSE IF /\ profiles[actor].role = "staff"
            /\ assignments[assignment_id].staff_id # actor
    THEN 403
    ELSE IF supervisor_denied(actor, assignments[assignment_id]) THEN 403
    ELSE 200

\* A filter is <<>> when the key is absent from filters and <<S>> when the
\* column is restricted to the values S.
NoFilter == <<>>

Passes(filter, value) == filter # NoFilter => value \in filter[1]

\* assignments.py list_assignments "Role-based filtering" on staff_id
role_staff_filter(actor, staff_id) ==
    IF profiles[actor].role = "staff" THEN <<{actor}>>
    ELSE IF profiles[actor].role = "supervisor"
    THEN <<dept_staff(profiles[actor].department)>>
    ELSE IF staff_id # None THEN <<{staff_id}>>
    ELSE NoFilter

\* assignments.py list_assignments "Department filtering (admin only)"
admin_department_filter(actor, department, staff_filter) ==
    IF /\ department # None
       /\ profiles[actor].role = "admin"
       /\ dept_staff(department) # {}
    THEN IF staff_filter = NoFilter THEN <<dept_staff(department)>>
         ELSE <<staff_filter[1] \cap dept_staff(department)>>
    ELSE staff_filter

\* assignments.py list_assignments: the assignments returned over all pages
list_assignments_result(actor, staff_id, issue_id, status_filter, department) ==
    LET staff_filter ==
            admin_department_filter(actor, department,
                                    role_staff_filter(actor, staff_id))
    IN {a \in DOMAIN assignments :
           /\ Passes(staff_filter, assignments[a].staff_id)
           /\ issue_id # 0 => assignments[a].issue_id = issue_id
           /\ status_filter # None => assignments[a].status = status_filter}

\* issues.py get_issue: response code for the actor
get_issue_result(actor, issue_id) ==
    IF issue_id \notin DOMAIN issues THEN 404
    ELSE IF /\ profiles[actor].role = "citizen"
            /\ issues[issue_id].citizen_id # actor
    THEN 403
    ELSE 200

\* issues.py list_issues "Role-based filtering": the citizen_id filter
citizen_filter(actor, citizen_id) ==
    IF profiles[actor].role = "citizen" THEN actor
    ELSE IF profiles[actor].role = "staff" THEN None
    ELSE citizen_id

\* issues.py list_issues "Department filtering for supervisors": the issue
\* ids the listing is restricted to.
dept_issue_filter(actor, department) ==
    LET dept_issue_ids ==
            {assignments[a].issue_id :
                a \in {b \in DOMAIN assignments :
                          assignments[b].staff_id \in dept_staff(department)}}
    IN IF /\ profiles[actor].role = "supervisor"
          /\ department # None
          /\ dept_issue_ids # {}
       THEN <<dept_issue_ids>>
       ELSE NoFilter

\* issues.py list_issues: the issues returned over all pages
list_issues_result(actor, status_filter, citizen_id, department) ==
    {i \in DOMAIN issues :
        /\ citizen_filter(actor, citizen_id) # None
               => issues[i].citizen_id = citizen_filter(actor, citizen_id)
        /\ status_filter # None => issues[i].status = status_filter
        /\ Passes(dept_issue_filter(actor, department), i)}

\* ------------------------------------------------- users.py and auth.py
MaxInFlight == 2
valid_roles == {"citizen", "staff", "supervisor", "admin"}
RoleInputs == {"admin", "citizen", "root"}
TargetInputs == {"admin1", "sup1", "ghost"}
RegisterIds == {"new1"}
RegisterRoles == {"admin", "staff", "citizen"}

\* len(get_data("profiles", {"role": "admin"}))
admin_count(prof) == Cardinality({u \in DOMAIN prof : prof[u].role = "admin"})

\* Variant of last_admin that never refuses.
last_admin_never(prof, user_id, new_role) == FALSE

\* "Prevent changing the last admin"
last_admin(prof, user_id, new_role) ==
    /\ prof[user_id].role = "admin"
    /\ new_role # "admin"
    /\ admin_count(prof) <= 1

RoleResult(code, detail, prof) == [code |-> code, detail |-> detail, profiles |-> prof]

\* change_user_role up to its update_data call: the answer of the checks
change_user_role_checks(actor, user_id, new_role) ==
    IF ~require_roles({"admin"}, actor)
    THEN RoleResult(403, "Access denied", profiles)
    ELSE IF new_role \notin valid_roles
    THEN RoleResult(400, "Invalid role", profiles)
    ELSE IF get_profile(user_id) = {}
    THEN RoleResult(404, "User not found", profiles)
    ELSE IF last_admin(profiles, user_id, new_role)
    THEN RoleResult(400, "Cannot change role of the last admin user", profiles)
    ELSE RoleResult(200, None, profiles)

\* update_data("profiles", {"id": user_id}, {"role": new_role})
update_role(prof, user_id, new_role) ==
    IF user_id \in DOMAIN prof THEN [prof EXCEPT ![user_id].role = new_role] ELSE prof

change_user_role_result(actor, user_id, new_role) ==
    \* the checks, then the write
    IF change_user_role_checks(actor, user_id, new_role).code # 200
    THEN change_user_role_checks(actor, user_id, new_role)
    ELSE RoleResult(200, None, update_role(profiles, user_id, new_role))

\* auth.py register: the profile written for the user id the identity store
\* returned; an existing profile (a retried registration) keeps its role
\* unless the request carries a role other than citizen.
register_result(user_id, role) ==
    LET assigned_department ==
            IF role \in {"staff", "supervisor"} THEN "Public Works" ELSE None
    IN IF user_id \in DOMAIN profiles
       THEN IF role # "citizen"
            THEN RoleResult(201, None,
                     [profiles EXCEPT
                         ![user_id].role = role,
                         ![user_id].department =
                             IF assigned_department # None /\ @ = None
                             THEN assigned_department ELSE @])
            ELSE RoleResult(201, None, profiles)
       ELSE RoleResult(201, None,
                insert_row(profiles, user_id,
                           [role |-> role, department |-> assigned_department]))

RoleFrame ==
    UNCHANGED <<issues, assignments, nextIssueId, nextAssignmentId, votes,
                issue_updates, nextVoteId, nextUpdateId, inflight>>

RoleRespond(op, result) ==
    \E r \in {result} :
        /\ profiles' = r.profiles
        /\ response' = [Resp(op, r.code, None) EXCEPT !.detail = r.detail]
        /\ RoleFrame

\* The whole handler, run to completion
change_user_role(actor, user_id, new_role) ==
    /\ RoleRespond("change_user_role", change_user_role_result(actor, user_id, new_role))
    /\ UNCHANGED role_requests

register(user_id, role) ==
    /\ RoleRespond("register", register_result(user_id, role))
    /\ UNCHANGED role_requests

\* A request that stops at its checks, or passes them and is then in flight
\* with its update_data call still to come
change_user_role_read(actor, user_id, new_role) ==
    \E r \in {change_user_role_checks(actor, user_id, new_role)} :
        IF r.code # 200
        THEN /\ RoleRespond("change_user_role", r)
             /\ UNCHANGED role_requests
        ELSE /\ Cardinality(role_requests) < MaxInFlight
             /\ role_requests' = role_requests \cup
                    {[actor |-> actor, user_id |-> user_id, new_role |-> new_role]}
             /\ UNCHANGED <<profiles, response>>
             /\ RoleFrame

\* The update_data call of a request in flight, and its response
change_user_role_write(req) ==
    /\ req \in role_requests
    /\ role_requests' = role_requests \ {req}
    /\ RoleRespond("change_user_role",
                   RoleResult(200, None, update_role(profiles, req.user_id, req.new_role)))

RoleNext ==
    \/ \E actor \in DOMAIN profiles, user_id \in TargetInputs, new_role \in RoleInputs :
           change_user_role(actor, user_id, new_role)
    \/ \E user_id \in RegisterIds, role \in RegisterRoles : register(user_id, role)

RoleSpec == Init /\ [][RoleNext]_vars

ConcurrentRoleNext ==
    \/ \E actor \in DOMAIN profiles, user_id \in TargetInputs, new_role \in RoleInputs :
           change_user_role_read(actor, user_id, new_role)
    \/ \E req \in role_requests : change_user_role_write(req)
    \/ \E user_id \in RegisterIds, role \in RegisterRoles : register(user_id, role)

ConcurrentRoleSpec == Init /\ [][ConcurrentRoleNext]_vars

\* ------------------------------------- requests interleaved at store calls
\* Several workers serve requests at once; one step is one store call of a
\* handler together with the Python code up to the next store call.  The
\* requests are an admin's, for staff profiles, so the role, staff and
\* department checks, which read the unchanging profiles only, pass.
RaceFrame ==
    UNCHANGED <<profiles, nextIssueId, votes, issue_updates, nextVoteId,
                nextUpdateId, role_requests>>

AllIdle == \A w \in Workers : inflight[w] = Idle

\* Variant of insert_assignment that writes nothing when the pair already
\* has an active assignment.
insert_assignment_unique(asg, id, row) ==
    IF existing_assignments(asg, row.issue_id, row.staff_id) # {}
    THEN asg
    ELSE insert_row(asg, id, row)

\* result = insert_data("issue_assignments", assignment_data)
insert_assignment(asg, id, row) == insert_row(asg, id, row)

\* create_assignment: issues = get_data("issues", {"id": assignment.issue_id})
create_read_issue(w, issue_id, staff_id) ==
    /\ inflight[w] = Idle
    /\ IF issue_id \notin DOMAIN issues
       THEN /\ response' = [Resp("create_assignment", 404, None)
                               EXCEPT !.detail = "Issue not found"]
            /\ UNCHANGED inflight
       ELSE /\ inflight' = [inflight EXCEPT ![w] =
                               [op |-> "create_assignment", pc |-> 1, id |-> 0,
                                staff_id |-> staff_id, issue_id |-> issue_id,
                                seen |-> issues[issue_id].status]]
            /\ UNCHANGED response
    /\ UNCHANGED <<issues, assignments, nextAssignmentId>>
    /\ RaceFrame

\* create_assignment: existing_assignments = get_data("issue_assignments", ...)
create_check_existing(w) ==
    /\ inflight[w].op = "create_assignment"
    /\ inflight[w].pc = 1
    /\ IF existing_assignments(assignments, inflight[w].issue_id,
                               inflight[w].staff_id) # {}
       THEN /\ response' = [Resp("create_assignment", 400, None) EXCEPT
                               !.detail = "Issue is already assigned to this staff member"]
            /\ inflight' = [inflight EXCEPT ![w] = Idle]
       ELSE /\ inflight' = [inflight EXCEPT ![w].pc = 2]
            /\ UNCHANGED response
    /\ UNCHANGED <<issues, assignments, nextAssignmentId>>
    /\ RaceFrame

\* create_assignment: result = insert_data("issue_assignments", assignment_data)
create_insert(w) ==
    /\ inflight[w].op = "create_assignment"
    /\ inflight[w].pc = 2
    /\ nextAssignmentId <= MaxAssignments
    /\ assignments' = insert_assignment(assignments, nextAssignmentId,
                                        new_assignment(inflight[w].issue_id,
                                                       inflight[w].staff_id,
                                                       "admin1", None))
    /\ nextAssignmentId' = nextAssignmentId + 1
    /\ inflight' = [inflight EXCEPT ![w].pc = 3, ![w].id = nextAssignmentId]
    /\ UNCHANGED <<issues, response>>
    /\ RaceFrame

\* create_assignment: if issue["status"] == "pending": update_data("issues", ...)
\* with the issue row read at the start, then the response
create_update_issue(w) ==
    /\ inflight[w].op = "create_assignment"
    /\ inflight[w].pc = 3
    /\ issues' = IF inflight[w].seen = "pending"
                 THEN set_issue_status(issues, inflight[w].issue_id, "in_progress")
                 ELSE issues
    /\ response' = Resp("create_assignment", 201, "assigned")
    /\ inflight' = [inflight EXCEPT ![w] = Idle]
    /\ UNCHANGED <<assignments, nextAssignmentId>>
    /\ RaceFrame

\* delete_assignment: existing_assignments = get_data("issue_assignments", {"id": ...})
delete_read_assignment(w, assignment_id) ==
    /\ inflight[w] = Idle
    /\ IF assignment_id \notin DOMAIN assignments
       THEN /\ response' = [Resp("delete_assignment", 404, None)
                               EXCEPT !.detail = "Assignment not found"]
            /\ UNCHANGED inflight
       ELSE /\ inflight' = [inflight EXCEPT ![w] =
                               [op |-> "delete_assignment", pc |-> 1,
                                id |-> assignment_id,
                                staff_id |-> assignments[assignment_id].staff_id,
                                issue_id |-> assignments[assignment_id].issue_id,
                                seen |-> None]]
            /\ UNCHANGED response
    /\ UNCHANGED <<issues, assignments, nextAssignmentId>>
    /\ RaceFrame

\* delete_assignment: delete_data("issue_assignments", {"id": assignment_id})
delete_delete_row(w) ==
    /\ inflight[w].op = "delete_assignment"
    /\ inflight[w].pc = 1
    /\ assignments' = delete_row(assignments, inflight[w].id)
    /\ inflight' = [inflight EXCEPT ![w].pc = 2]
    /\ UNCHANGED <<issues, nextAssignmentId, response>>
    /\ RaceFrame

\* delete_assignment: remaining_assignments = get_data("issue_assignments", ...)
delete_read_remaining(w) ==
    /\ inflight[w].op = "delete_assignment"
    /\ inflight[w].pc = 2
    /\ inflight' = [inflight EXCEPT
                       ![w].pc = 3,
                       ![w].seen = IF assignments_of_issue(assignments,
                                                           inflight[w].issue_id) = {}
                                   THEN "none" ELSE "some"]
    /\ UNCHANGED <<issues, assignments, nextAssignmentId, response>>
    /\ RaceFrame

\* delete_assignment: if not remaining_assignments: update_data("issues", ...),
\* then the response
delete_update_issue(w) ==
    /\ inflight[w].op = "delete_assignment"
    /\ inflight[w].pc = 3
    /\ issues' = IF inflight[w].seen = "none"
                 THEN set_issue_status(issues, inflight[w].issue_id, "pending")
                 ELSE issues
    /\ response' = Resp("delete_assignment", 200, None)
    /\ inflight' = [inflight EXCEPT ![w] = Idle]
    /\ UNCHANGED <<assignments, nextAssignmentId>>
    /\ RaceFrame

RaceNext ==
    \/ \E actor \in IssueCreators, citizen_id \in CitizenIdInputs :
           create_issue(actor, citizen_id)
    \/ \E w \in Workers, issue_id \in IssueIdInputs, staff_id \in Assignees :
           create_read_issue(w, issue_id, staff_id)
    \/ \E w \in Workers : create_check_existing(w)
    \/ \E w \in Workers : create_insert(w)
    \/ \E w \in Workers : create_update_issue(w)
    \/ \E w \in Workers, assignment_id \in AssignmentIdInputs :
           delete_read_assignment(w, assignment_id)
    \/ \E w \in Workers : delete_delete_row(w)
    \/ \E w \in Workers : delete_read_remaining(w)
    \/ \E w \in Workers : delete_update_issue(w)

RaceSpec == Init /\ [][RaceNext]_vars

\* --------------------------------------- concurrent update_assignment
\* Variant of update_order that reads all assignments of the issue before
\* the own row is written.
update_order_read_first == <<"read_all", "write">>

\* update_assignment with status completed: update_data on the own row, then
\* get_data of all assignments of the issue.
update_order == <<"write", "read_all">>

\* update_assignment: existing_assignments = get_data("issue_assignments", {"id": ...})
update_read_assignment(w, assignment_id) ==
    /\ inflight[w] = Idle
    /\ IF assignment_id \notin DOMAIN assignments
       THEN /\ response' = [Resp("update_assignment", 404, None)
                               EXCEPT !.detail = "Assignment not found"]
            /\ UNCHANGED inflight
       ELSE /\ inflight' = [inflight EXCEPT ![w] =
                               [op |-> "update_assignment", pc |-> 1,
                                id |-> assignment_id,
                                staff_id |-> assignments[assignment_id].staff_id,
                                issue_id |-> assignments[assignment_id].issue_id,
                                seen |-> None]]
            /\ UNCHANGED response
    /\ UNCHANGED <<issues, assignments, nextAssignmentId>>
    /\ RaceFrame

\* update_assignment: the next store call of update_order, either
\* update_data("issue_assignments", {"id": assignment_id}, update_dict) or
\* all_assignments = get_data("issue_assignments", {"issue_id": issue_id})
update_store_call(w) ==
    /\ inflight[w].op = "update_assignment"
    /\ inflight[w].pc \in DOMAIN update_order
    /\ IF update_order[inflight[w].pc] = "write"
       THEN /\ assignments' = [assignments EXCEPT ![inflight[w].id] =
                                  updated_row(@, "completed", Unset)]
            /\ inflight' = [inflight EXCEPT ![w].pc = @ + 1]
       ELSE /\ inflight' = [inflight EXCEPT
                               ![w].pc = @ + 1,
                               ![w].seen = IF all_completed(assignments,
                                                            inflight[w].issue_id)
                                           THEN "all" ELSE "some"]
            /\ UNCHANGED assignments
    /\ UNCHANGED <<issues, nextAssignmentId, response>>
    /\ RaceFrame

\* update_assignment: if all_completed: update_data("issues", ..., resolved)
\* and the resolution notification, then the response
update_resolve_issue(w) ==
    /\ inflight[w].op = "update_assignment"
    /\ inflight[w].pc = Len(update_order) + 1
    /\ issues' = IF inflight[w].seen = "all"
                 THEN set_issue_status(issues, inflight[w].issue_id, "resolved")
                 ELSE issues
    /\ response' = Resp("update_assignment", 200,
                        IF inflight[w].seen = "all" THEN "resolved" ELSE None)
    /\ inflight' = [inflight EXCEPT ![w] = Idle]
    /\ UNCHANGED <<assignments, nextAssignmentId>>
    /\ RaceFrame

\* create_assignment served while no update_assignment is in flight
create_assignment_alone(actor, issue_id, staff_id, notes) ==
    /\ AllIdle
    /\ create_assignment(actor, issue_id, staff_id, notes)

\* Issues and assignments are created while no update is being served; the
\* update_assignment requests that complete them run concurrently.
CompletionNext ==
    \/ \E actor \in IssueCreators, citizen_id \in CitizenIdInputs :
           create_issue(actor, citizen_id)
    \/ \E actor \in Assigners, issue_id \in IssueIdInputs, staff_id \in Assignees,
          notes \in NotesInputs :
           create_assignment_alone(actor, issue_id, staff_id, notes)
    \/ \E w \in Workers, assignment_id \in AssignmentIdInputs :
           update_read_assignment(w, assignment_id)
    \/ \E w \in Workers : update_store_call(w)
    \/ \E w \in Workers : update_resolve_issue(w)

CompletionSpec == Init /\ [][CompletionNext]_vars

\* ------------------------------------------------- store calls that raise
\* supabase_client.py: every store function catches the client's exception
\* and raises Exception(f"<Op> failed for table {table}: {str(e)}").  A
\* request is served with one store function (fn) raising at its first call
\* in the handler.
StoreFunctions == {"get_data", "insert_data", "update_data", "delete_data"}
Cause == "connection reset"

exception_text(op, table) == op \o " failed for table " \o table \o ": " \o Cause

ExceptionTexts ==
    {exception_text(op, table) :
        op \in {"Fetch", "Insert", "Update", "Delete"},
        table \in {"issues", "issue_assignments", "profiles"}}

\* create_assignment: "except Exception" answers 500 with a fixed detail;
\* what was written before the raise stays written.
create_assignment_raising(actor, issue_id, staff_id, notes, fn) ==
    LET r == create_assignment_result(actor, issue_id, staff_id, notes)
        failed(asg, nextA) ==
            Result(500, "Failed to create assignment", None, asg, issues, nextA)
    IN IF ~require_roles({"admin", "supervisor"}, actor) THEN r
       ELSE IF fn = "get_data" THEN failed(assignments, nextAssignmentId)
       ELSE IF r.code # 201 THEN r
       ELSE IF fn = "insert_data" THEN failed(assignments, nextAssignmentId)
       ELSE IF fn = "update_data" /\ issues[issue_id].status = "pending"
       THEN failed(r.assignments, r.nextAssignmentId)
       ELSE r

\* update_assignment: "except Exception" answers 500 with a fixed detail.
update_assignment_raising(actor, assignment_id, status, notes, fn) ==
    LET r == update_assignment_result(actor, assignment_id, status, notes)
        failed == Result(500, "Failed to update assignment", None,
                         assignments, issues, nextAssignmentId)
    IN IF fn = "get_data" THEN failed
       ELSE IF r.code # 200 THEN r
       ELSE IF fn = "update_data" THEN failed
       ELSE r

\* delete_assignment: "except Exception" answers 500 with a fixed detail;
\* a raise of the issue update leaves the row deleted.
delete_assignment_raising(actor, assignment_id, fn) ==
    LET r == delete_assignment_result(actor, assignment_id)
        failed(asg) == Result(500, "Failed to delete assignment", None,
                              asg, issues, nextAssignmentId)
    IN IF ~require_roles({"admin", "supervisor"}, actor) THEN r
       ELSE IF fn = "get_data" THEN failed(assignments)
       ELSE IF r.code # 200 THEN r
       ELSE IF fn = "delete_data" THEN failed(assignments)
       ELSE IF fn = "update_data" /\ r.issues # issues THEN failed(r.assignments)
       ELSE r

\* The bulk_assign_issues loop with fn still to raise: the item whose call
\* raises is counted as failed with errors.append(f"Issue {issue_id}: {str(e)}"),
\* and the loop goes on.
RECURSIVE bulk_loop_raising(_, _, _, _, _, _)
bulk_loop_raising(st, issue_ids, staff_id, actor, notes, fn) ==
    IF issue_ids = <<>> THEN st
    ELSE LET issue_id == Head(issue_ids)
             inserts == /\ issue_id \in DOMAIN st.issues
                        /\ existing_assignments(st.assignments, issue_id, staff_id) = {}
         IN IF fn = "insert_data" /\ inserts
            THEN bulk_loop([st EXCEPT
                               !.failed = @ + 1,
                               !.errors = Append(@, [issue_id |-> issue_id,
                                   error |-> exception_text("Insert", "issue_assignments")])],
                           Tail(issue_ids), staff_id, actor, notes)
            ELSE IF fn = "update_data" /\ inserts /\ st.issues[issue_id].status = "pending"
            THEN bulk_loop([st EXCEPT
                               !.assignments = insert_row(@, st.nextAssignmentId,
                                   new_assignment(issue_id, staff_id, actor, notes)),
                               !.nextAssignmentId = @ + 1,
                               !.failed = @ + 1,
                               !.errors = Append(@, [issue_id |-> issue_id,
                                   error |-> exception_text("Update", "issues")])],
                           Tail(issue_ids), staff_id, actor, notes)
            ELSE bulk_loop_raising(bulk_step(st, issue_id, staff_id, actor, notes),
                                   Tail(issue_ids), staff_id, actor, notes, fn)

\* bulk_assign_issues: a raise before the loop reaches the outer
\* "except Exception", a raise inside the loop the per-item one.
bulk_assign_issues_raising(actor, issue_ids, staff_id, notes, fn) ==
    LET r == bulk_assign_issues_result(actor, issue_ids, staff_id, notes)
    IN IF ~require_roles({"admin", "supervisor"}, actor) THEN r
       ELSE IF fn = "get_data"
       THEN Rejected(500, "Failed to bulk assign issues")
       ELSE IF r.code # 200 THEN r
       ELSE bulk_loop_raising(
                Result(200, None, None, assignments, issues, nextAssignmentId),
                issue_ids, staff_id, actor, notes, fn)

FaultFrame ==
    UNCHANGED <<profiles, nextIssueId, votes, issue_updates, nextVoteId,
                nextUpdateId, role_requests, inflight>>

create_assignment_fault(actor, issue_id, staff_id, notes, fn) ==
    /\ Respond("create_assignment",
               create_assignment_raising(actor, issue_id, staff_id, notes, fn))
    /\ FaultFrame

update_assignment_fault(actor, assignment_id, status, notes, fn) ==
    /\ Respond("update_assignment",
               update_assignment_raising(actor, assignment_id, status, notes, fn))
    /\ FaultFrame

delete_assignment_fault(actor, assignment_id, fn) ==
    /\ Respond("delete_assignment",
               delete_assignment_raising(actor, assignment_id, fn))
    /\ FaultFrame

bulk_assign_issues_fault(actor, issue_ids, staff_id, notes, fn) ==
    /\ Respond("bulk_assign_issues",
               bulk_assign_issues_raising(actor, issue_ids, staff_id, notes, fn))
    /\ FaultFrame

FaultNext ==
    \/ \E actor \in IssueCreators, citizen_id \in CitizenIdInputs :
           create_issue(actor, citizen_id)
    \/ \E actor \in Assigners, issue_id \in IssueIdInputs, staff_id \in Assignees,
          notes \in NotesInputs :
           create_assignment(actor, issue_id, staff_id, notes)
    \/ \E actor \in Assigners, issue_id \in IssueIdInputs, staff_id \in Assignees,
          notes \in NotesInputs, fn \in StoreFunctions :
           create_assignment_fault(actor, issue_id, staff_id, notes, fn)
    \/ \E actor \in Assigners, assignment_id \in AssignmentIdInputs,
          status \in AssignmentStatus, notes \in NotesUpdates, fn \in StoreFunctions :
           update_assignment_fault(actor, assignment_id, status, notes, fn)
    \/ \E actor \in Assigners, assignment_id \in AssignmentIdInputs,
          fn \in StoreFunctions :
           delete_assignment_fault(actor, assignment_id, fn)
    \/ \E actor \in Assigners, issue_ids \in BulkIdLists, staff_id \in Assignees,
          notes \in NotesInputs, fn \in StoreFunctions :
           bulk_assign_issues_fault(actor, issue_ids, staff_id, notes, fn)

FaultSpec == Init /\ [][FaultNext]_vars

\* ---------------------------------------------------------------- claims
Active == {"assigned", "in_progress"}

Rank(status) ==
    CASE status = "pending" -> 0
      [] status = "in_progress" -> 1
      [] OTHER -> 2

\* C1: in every reachable state, every issue whose status is resolved has
\* only completed assignments (none assigned or in_progress).
C1_ResolvedImpliesAllCompleted ==
    \A i \in DOMAIN issues :
        issues[i].status = "resolved" =>
            \A a \in DOMAIN assignments :
                assignments[a].issue_id = i => assignments[a].status = "completed"

\* C2: in every reachable state, each (issue_id, staff_id) pair has at most
\* one assignment whose status is assigned or in_progress.
C2_AtMostOneActivePerPair ==
    \A a, b \in DOMAIN assignments :
        ( /\ a # b
          /\ assignments[a].issue_id = assignments[b].issue_id
          /\ assignments[a].staff_id = assignments[b].staff_id
          /\ assignments[a].status \in Active )
        => assignments[b].status \notin Active

\* C3: in every reachable state an issue without assignment rows is
\* pending, and a delete_assignment that removes the last assignment of an
\* issue leaves that issue pending whatever its status was.
C3_UnassignedIsPending ==
    /\ \A i \in DOMAIN issues :
           (\A a \in DOMAIN assignments : assignments[a].issue_id # i)
               => issues[i].status = "pending"
    /\ \A actor \in Users, id \in DOMAIN assignments :
           \E r \in {delete_assignment_result(actor, id)} :
               ( /\ r.code = 200
                 /\ \A a \in DOMAIN r.assignments :
                        r.assignments[a].issue_id # assignments[id].issue_id )
               => r.issues[assignments[id].issue_id].status = "pending"

\* C3 witness: a delete has just removed the only assignment of an issue
\* that an update had moved on, and the issue is pending again.
C3_Witness ==
    /\ response.op = "delete_assignment"
    /\ response.code = 200
    /\ nextAssignmentId = 2
    /\ assignments = EmptyTable
    /\ \E i \in DOMAIN issues : issues[i].status = "pending"

\* C4: when update_assignment sets an assignment to completed, then if
\* every assignment of the issue is completed after the write the issue
\* becomes resolved and the resolution notification is fired; otherwise the
\* issue's status stays what it was (and nothing is notified).
C4_CompletedCascade ==
    \A actor \in Users, id \in DOMAIN assignments, notes \in NotesUpdates :
        \E r \in {update_assignment_result(actor, id, "completed", notes)} :
            r.code = 200 =>
                LET i == assignments[id].issue_id
                IN /\ r.assignments[id].status = "completed"
                   /\ IF \A a \in DOMAIN r.assignments :
                             r.assignments[a].issue_id = i
                                 => r.assignments[a].status = "completed"
                      THEN r.issues[i].status = "resolved" /\ r.notified = "resolved"
                      ELSE r.issues[i].status = issues[i].status /\ r.notified = None

\* C4 witness: a completing update has just resolved an issue that has two
\* assignments, and the resolution was notified.
C4_Witness ==
    /\ response.op = "update_assignment"
    /\ response.code = 200
    /\ response.notified = "resolved"
    /\ \E a, b \in DOMAIN assignments :
           /\ a # b
           /\ assignments[a].issue_id = assignments[b].issue_id
           /\ assignments[a].status = "completed"
           /\ assignments[b].status = "completed"
           /\ issues[assignments[a].issue_id].status = "resolved"

\* C5: a successful create_assignment, or a successful per-issue step of
\* bulk_assign_issues, moves a pending issue to in_progress and leaves an
\* in_progress or resolved issue's status unchanged.
C5_CreateCascade ==
    /\ \A actor \in Users, i \in IssueIdInputs, staff_id \in StaffIdInputs,
          notes \in NotesInputs :
           \E r \in {create_assignment_result(actor, i, staff_id, notes)} :
               r.code = 201 =>
                   r.issues[i].status =
                       IF issues[i].status = "pending"
                       THEN "in_progress" ELSE issues[i].status
    /\ \A actor \in Users, issue_ids \in BulkIdLists, staff_id \in StaffIdInputs,
          notes \in NotesInputs :
           \E r \in {bulk_assign_issues_result(actor, issue_ids, staff_id, notes)} :
               \A a \in DOMAIN r.assignments \ DOMAIN assignments :
                   LET i == r.assignments[a].issue_id
                   IN r.issues[i].status =
                          IF issues[i].status = "pending"
                          THEN "in_progress" ELSE issues[i].status

\* C5 witness: an assignment has just been created on an issue that was
\* already resolved, and the issue is still resolved.
C5_Witness ==
    /\ response.op \in {"create_assignment", "bulk_assign_issues"}
    /\ response.code \in {200, 201}
    /\ \E a \in DOMAIN assignments :
           /\ a = nextAssignmentId - 1
           /\ assignments[a].status = "assigned"
           /\ issues[assignments[a].issue_id].status = "resolved"

\* C6: a successful update_assignment with status in_progress leaves the
\* assignment's issue in_progress whatever it was, and the same request
\* applied again changes neither the assignments nor the issues.
C6_InProgressForcedIdempotent ==
    \A actor \in Users, id \in DOMAIN assignments, notes \in NotesUpdates :
        \E r \in {update_assignment_result(actor, id, "in_progress", notes)} :
            r.code = 200 =>
                /\ r.assignments[id].status = "in_progress"
                /\ r.issues[assignments[id].issue_id].status = "in_progress"
                /\ \E r2 \in {update_assignment_on(r.assignments, r.issues, actor, id,
                                                   "in_progress", notes)} :
                       /\ r2.code = 200
                       /\ r2.assignments = r.assignments
                       /\ r2.issues = r.issues

\* C6 witness: an update has just put a once-completed issue's assignment
\* back in_progress and the issue is in_progress.
C6_Witness ==
    /\ response.op = "update_assignment"
    /\ response.code = 200
    /\ \E a \in DOMAIN assignments :
           /\ assignments[a].status = "in_progress"
           /\ assignments[a].notes = "n"
           /\ issues[assignments[a].issue_id].status = "in_progress"

\* The reset performed by delete_assignment: issue i is pending after a
\* delete that left it without assignments.
ResetByDelete(i) ==
    /\ response'.op = "delete_assignment"
    /\ issues'[i].status = "pending"
    /\ \A a \in DOMAIN assignments' : assignments'[a].issue_id # i

\* The forcing performed by update_assignment: issue i is in_progress after
\* an update that left one of its assignments in_progress.
ForcedByUpdate(i) ==
    /\ response'.op = "update_assignment"
    /\ issues'[i].status = "in_progress"
    /\ \E a \in DOMAIN assignments' :
           assignments'[a].issue_id = i /\ assignments'[a].status = "in_progress"

\* C7 (as claimed): over any sequence of requests an issue's status only
\* moves forward along pending -> in_progress -> resolved, the one backward
\* step being the reset to pending by delete_assignment when no assignment
\* remains; no request moves a resolved issue back to in_progress.
C7_StatusOnlyForward ==
    [][\A i \in DOMAIN issues :
           \/ Rank(issues'[i].status) >= Rank(issues[i].status)
           \/ ResetByDelete(i)]_vars

\* C7 (amended): an issue's status moves forward, except for the reset to
\* pending by delete_assignment when no assignment remains and for
\* update_assignment with status in_progress, which forces the issue to
\* in_progress even from resolved.
C7_StatusForwardOrForced ==
    [][\A i \in DOMAIN issues :
           \/ Rank(issues'[i].status) >= Rank(issues[i].status)
           \/ ResetByDelete(i)
           \/ ForcedByUpdate(i)]_vars

\* C7 witness: an update has just left an issue in_progress although one of
\* its assignments is completed and another in_progress.
C7_Witness ==
    /\ response.op = "update_assignment"
    /\ response.code = 200
    /\ \E a, b \in DOMAIN assignments :
           /\ assignments[a].issue_id = assignments[b].issue_id
           /\ assignments[a].status = "completed"
           /\ assignments[b].status = "in_progress"
           /\ issues[assignments[a].issue_id].status = "in_progress"

\* The actors the update-assignment contract admits for an assignment row.
MayUpdate(actor, row) ==
    \/ actor = row.staff_id
    \/ profiles[actor].role = "admin"
    \/ /\ profiles[actor].role = "supervisor"
       /\ profiles[actor].department = profiles[row.staff_id].department

\* C8: update_assignment changes an assignment or its issue only for the
\* assigned staff member, a supervisor of that staff member's department or
\* an admin; every other actor gets 403 and nothing is modified.
C8_UpdateAuthorized ==
    \A actor \in Users, id \in DOMAIN assignments, status \in AssignmentStatus,
       notes \in NotesUpdates :
        ~MayUpdate(actor, assignments[id]) =>
            \E r \in {update_assignment_result(actor, id, status, notes)} :
                /\ r.code = 403
                /\ r.assignments = assignments
                /\ r.issues = issues

\* The actors the delete-assignment contract admits for an assignment row.
MayDelete(actor, row) ==
    \/ profiles[actor].role = "admin"
    \/ /\ profiles[actor].role = "supervisor"
       /\ profiles[actor].department = profiles[row.staff_id].department

\* C9: delete_assignment removes an assignment only for an admin or a
\* supervisor of the assigned staff member's department; citizens, staff
\* and supervisors of another department get 403, and a rejected request
\* deletes nothing and changes no issue.
C9_DeleteAuthorized ==
    /\ \A actor \in Users, id \in AssignmentIdInputs :
           \E r \in {delete_assignment_result(actor, id)} :
               /\ profiles[actor].role \in {"citizen", "staff"} => r.code = 403
               /\ r.code # 200 => r.assignments = assignments /\ r.issues = issues
    /\ \A actor \in Users, id \in DOMAIN assignments :
           \E r \in {delete_assignment_result(actor, id)} :
               IF MayDelete(actor, assignments[id])
               THEN r.code = 200 /\ id \notin DOMAIN r.assignments
               ELSE r.code = 403 /\ r.assignments = assignments /\ r.issues = issues

\* C9 witness: a supervisor's delete of an assignment of another department
\* has just been refused and the assignment is still there.
C9_Witness ==
    /\ response.op = "delete_assignment"
    /\ response.code = 403
    /\ response.detail = "Not authorized to delete assignments outside your department"
    /\ \E a \in DOMAIN assignments : assignments[a].staff_id = "staff2"

\* A supervisor and a staff profile of different departments
OutsideDepartment(actor, staff_id) ==
    /\ profiles[actor].role = "supervisor"
    /\ staff_id \in DOMAIN profiles
    /\ profiles[staff_id].role = "staff"
    /\ profiles[actor].department # profiles[staff_id].department

Refused403(r) ==
    /\ r.code = 403
    /\ r.assignments = assignments
    /\ r.issues = issues
    /\ r.nextAssignmentId = nextAssignmentId

\* C10 (as claimed): create_assignment and bulk_assign_issues by a
\* supervisor whose department differs from the target staff member's are
\* rejected with 403 and leave the store unchanged.
C10_OutsideDepartmentRefused ==
    \A actor \in Users, staff_id \in StaffIdInputs, notes \in NotesInputs :
        OutsideDepartment(actor, staff_id) =>
            /\ \A i \in IssueIdInputs :
                   Refused403(create_assignment_result(actor, i, staff_id, notes))
            /\ \A issue_ids \in BulkIdLists :
                   Refused403(bulk_assign_issues_result(actor, issue_ids, staff_id, notes))

\* C10 (amended): bulk_assign_issues, and create_assignment on an issue
\* that exists, by a supervisor whose department differs from the target
\* staff member's are rejected with 403; create_assignment on an issue that
\* does not exist is rejected with 404 before the department is looked at;
\* every such rejection leaves the store unchanged.
C10_OutsideDepartmentRefusedExisting ==
    \A actor \in Users, staff_id \in StaffIdInputs, notes \in NotesInputs :
        OutsideDepartment(actor, staff_id) =>
            /\ \A i \in IssueIdInputs :
                   \E r \in {create_assignment_result(actor, i, staff_id, notes)} :
                       /\ r.code = IF i \in DOMAIN issues THEN 403 ELSE 404
                       /\ r.assignments = assignments
                       /\ r.issues = issues
                       /\ r.nextAssignmentId = nextAssignmentId
            /\ \A issue_ids \in BulkIdLists :
                   Refused403(bulk_assign_issues_result(actor, issue_ids, staff_id, notes))

\* C10 witness: an assignment to staff outside the supervisor's department
\* has just been refused while a pending, unassigned issue exists.
C10_Witness ==
    /\ response.op \in {"create_assignment", "bulk_assign_issues"}
    /\ response.code = 403
    /\ response.detail = "Cannot assign to staff outside your department"
    /\ \E i \in DOMAIN issues : issues[i].status = "pending"

\* The rows of the (issue_id, staff_id) pair
PairRows(i, s) ==
    {a \in DOMAIN assignments :
        assignments[a].issue_id = i /\ assignments[a].staff_id = s}

\* The request wrote nothing: no row inserted, no issue changed.
NoWrite(r) ==
    /\ r.assignments = assignments
    /\ r.issues = issues
    /\ r.nextAssignmentId = nextAssignmentId

\* The actor passes the role check and the department check for the staff.
MayAssign(actor, staff_id) ==
    \/ profiles[actor].role = "admin"
    \/ /\ profiles[actor].role = "supervisor"
       /\ profiles[actor].department = profiles[staff_id].department

\* C11: create_assignment for a pair that already has an assigned or
\* in_progress assignment is rejected (as a conflict when the actor is
\* authorised) and writes nothing; the same create succeeds when the pair's
\* only assignments are completed; and the request is rejected without any
\* write when the issue does not exist or the target profile does not exist
\* or is not a staff profile.
C11_DuplicateActiveRejected ==
    \A actor \in Users, i \in IssueIdInputs, staff_id \in StaffIdInputs,
       notes \in NotesInputs :
        \E r \in {create_assignment_result(actor, i, staff_id, notes)} :
            /\ (\E a \in PairRows(i, staff_id) : assignments[a].status \in Active)
                   => /\ r.code \in {400, 403}
                      /\ NoWrite(r)
                      /\ MayAssign(actor, staff_id)
                             => /\ r.code = 400
                                /\ r.detail = "Issue is already assigned to this staff member"
            /\ ( /\ i \in DOMAIN issues
                 /\ staff_id \in DOMAIN profiles
                 /\ profiles[staff_id].role = "staff"
                 /\ MayAssign(actor, staff_id)
                 /\ \A a \in PairRows(i, staff_id) :
                        assignments[a].status = "completed" )
                   => /\ r.code = 201
                      /\ DOMAIN r.assignments = DOMAIN assignments \cup {nextAssignmentId}
                      /\ r.assignments[nextAssignmentId].issue_id = i
                      /\ r.assignments[nextAssignmentId].staff_id = staff_id
                      /\ r.assignments[nextAssignmentId].status = "assigned"
            /\ ( \/ i \notin DOMAIN issues
                 \/ staff_id \notin DOMAIN profiles
                 \/ profiles[staff_id].role # "staff" )
                   => r.code \in {400, 403, 404} /\ NoWrite(r)

\* C11 witness: a create for a pair has just been refused as a conflict
\* while the pair holds one completed and one active assignment.
C11_Witness ==
    /\ response.op = "create_assignment"
    /\ response.code = 400
    /\ response.detail = "Issue is already assigned to this staff member"
    /\ \E a, b \in DOMAIN assignments :
           /\ assignments[a].issue_id = assignments[b].issue_id
           /\ assignments[a].staff_id = assignments[b].staff_id
           /\ assignments[a].status = "completed"
           /\ assignments[b].status \in Active

\* C12: an issue row and its dependent votes, updates and assignments are
\* removed only by a request of an admin: no delete-issue or update-issue
\* (PUT) request by a citizen, staff member or supervisor removes an issue
\* or a row that depends on one.
C12_OnlyAdminDeletesIssue ==
    \A actor \in Users, issue_id \in IssueIdInputs, status \in IssueStatusInputs :
        profiles[actor].role # "admin" =>
            /\ delete_issue_result(actor, issue_id).store = Store
            /\ \E r \in {update_issue_result(actor, issue_id, status)} :
                   /\ DOMAIN issues \subseteq DOMAIN r.store.issues
                   /\ DOMAIN votes \subseteq DOMAIN r.store.issue_votes
                   /\ DOMAIN issue_updates \subseteq DOMAIN r.store.issue_updates
                   /\ DOMAIN assignments \subseteq DOMAIN r.store.issue_assignments

\* C13: after an update-issue request by a citizen on an issue they own,
\* whatever status the request carries, the issue still exists with the
\* status it had before, and the same holds for the same request submitted
\* a second time.
C13_CitizenUpdateKeepsStatus ==
    \A actor \in Users, issue_id \in DOMAIN issues, status \in IssueStatusInputs :
        (profiles[actor].role = "citizen" /\ issues[issue_id].citizen_id = actor) =>
            \E r \in {update_issue_result(actor, issue_id, status)} :
                /\ issue_id \in DOMAIN r.store.issues
                /\ r.store.issues[issue_id].status = issues[issue_id].status

\* C18: after any sequence of completed vote_issue and unvote_issue
\* requests at most one vote row exists per (issue_id, user_id) pair, and a
\* vote_issue request of a user who already has a vote on the issue is
\* rejected and leaves the vote rows unchanged.
C18_OneVotePerPair ==
    /\ \A v, w \in DOMAIN votes :
           ( /\ votes[v].issue_id = votes[w].issue_id
             /\ votes[v].user_id = votes[w].user_id ) => v = w
    /\ \A actor \in Users, issue_id \in IssueIdInputs :
           (\E v \in DOMAIN votes :
                votes[v].issue_id = issue_id /\ votes[v].user_id = actor)
               => \E r \in {vote_issue_result(actor, issue_id)} :
                      /\ r.code = 400
                      /\ r.store.issue_votes = votes

\* C18 witness: a second vote of a user on an issue has just been refused,
\* after that user had voted, unvoted and voted again.
C18_Witness ==
    /\ response.op = "vote_issue"
    /\ response.code = 400
    /\ nextVoteId = 3
    /\ \E v \in DOMAIN votes : DOMAIN votes = {v} /\ v = 2

\* A row of a dependent table that references no issue of the store st
Dangling(st) ==
    \/ \E v \in DOMAIN st.issue_votes : st.issue_votes[v].issue_id \notin DOMAIN st.issues
    \/ \E u \in DOMAIN st.issue_updates :
           st.issue_updates[u].issue_id \notin DOMAIN st.issues
    \/ \E a \in DOMAIN st.issue_assignments :
           st.issue_assignments[a].issue_id \notin DOMAIN st.issues

\* No row of the store st mentions the issue
Forgotten(st, issue_id) ==
    /\ issue_id \notin DOMAIN st.issues
    /\ \A v \in DOMAIN st.issue_votes : st.issue_votes[v].issue_id # issue_id
    /\ \A u \in DOMAIN st.issue_updates : st.issue_updates[u].issue_id # issue_id
    /\ \A a \in DOMAIN st.issue_assignments : st.issue_assignments[a].issue_id # issue_id

\* C19: an issue deletion removes the votes, updates and assignments of the
\* issue before the issue row (after each of its delete calls no dependent
\* row is left without its issue), after the request no row references the
\* deleted issue, and in every reachable state every vote, update and
\* assignment row references an existing issue.
C19_CascadeKeepsReferences ==
    /\ ~Dangling(Store)
    /\ \A issue_id \in DOMAIN issues :
           /\ \A k \in 0..Len(delete_order) :
                  ~Dangling(delete_steps(Store, SubSeq(delete_order, 1, k), issue_id))
           /\ \A actor \in Users :
                  \E r \in {delete_issue_result(actor, issue_id)} :
                      r.code = 200 => Forgotten(r.store, issue_id) /\ ~Dangling(r.store)

\* C19 witness: a delete_issue has just removed the only issue ever
\* created, which had a vote, an update and an assignment, and every table
\* is empty.
C19_Witness ==
    /\ response.op = "delete_issue"
    /\ response.code = 200
    /\ nextIssueId = 2 /\ nextVoteId = 2 /\ nextUpdateId = 2 /\ nextAssignmentId = 2
    /\ issues = EmptyTable
    /\ votes = EmptyTable
    /\ issue_updates = EmptyTable
    /\ assignments = EmptyTable

\* C14: a citizen is never shown an assignment (get_assignment never
\* answers 200 and list_assignments never returns a row), and a staff
\* member is only shown assignments whose staff_id is their own id,
\* whatever filters they pass.
C14_AssignmentsHiddenFromOthers ==
    \A actor \in Users :
        /\ profiles[actor].role = "citizen" =>
               /\ \A id \in AssignmentIdInputs : get_assignment_result(actor, id) # 200
               /\ \A staff_id \in StaffFilterInputs, issue_id \in IssueFilterInputs,
                     status_filter \in AssignmentStatusFilters,
                     department \in DepartmentInputs :
                      list_assignments_result(actor, staff_id, issue_id,
                                              status_filter, department) = {}
        /\ profiles[actor].role = "staff" =>
               /\ \A id \in DOMAIN assignments :
                      get_assignment_result(actor, id) = 200
                          => assignments[id].staff_id = actor
               /\ \A staff_id \in StaffFilterInputs, issue_id \in IssueFilterInputs,
                     status_filter \in AssignmentStatusFilters,
                     department \in DepartmentInputs :
                      \A a \in list_assignments_result(actor, staff_id, issue_id,
                                                       status_filter, department) :
                          assignments[a].staff_id = actor

\* Issue i has an assignment to a staff member of the actor's department.
AssignedInDepartment(actor, i) ==
    \E a \in DOMAIN assignments :
        /\ assignments[a].issue_id = i
        /\ assignments[a].staff_id \in dept_staff(profiles[actor].department)

\* C15: a supervisor is only shown issues that have an assignment to a
\* staff member of the supervisor's department: get_issue and list_issues
\* return no other issue, whatever department filter is passed.
C15_SupervisorSeesDepartmentIssues ==
    \A actor \in Users :
        profiles[actor].role = "supervisor" =>
            /\ \A i \in DOMAIN issues :
                   get_issue_result(actor, i) = 200 => AssignedInDepartment(actor, i)
            /\ \A status_filter \in IssueStatusFilters,
                  citizen_id \in CitizenFilterInputs, department \in DepartmentInputs :
                   \A i \in list_issues_result(actor, status_filter, citizen_id,
                                               department) :
                       AssignedInDepartment(actor, i)

\* C16: change_user_role by an admin on a target whose role is admin, with
\* a new role other than admin, is rejected when at most one admin profile
\* exists, leaving the target's role unchanged, and is accepted when at
\* least two admins exist.
C16_LastAdminKept ==
    \A actor \in DOMAIN profiles, user_id \in DOMAIN profiles,
       new_role \in valid_roles \ {"admin"} :
        (profiles[actor].role = "admin" /\ profiles[user_id].role = "admin") =>
            \E r \in {change_user_role_result(actor, user_id, new_role)} :
                IF Cardinality({u \in DOMAIN profiles : profiles[u].role = "admin"}) <= 1
                THEN /\ r.code = 400
                     /\ r.profiles = profiles
                ELSE /\ r.code = 200
                     /\ r.profiles[user_id].role = new_role

\* C16 witness: the demotion of the only admin has just been refused, after
\* a second admin had been made and demoted again.
C16_Witness ==
    /\ response.op = "change_user_role"
    /\ response.code = 400
    /\ response.detail = "Cannot change role of the last admin user"
    /\ profiles["admin1"].role = "citizen"
    /\ profiles["sup1"].role = "admin"

\* C17: at least one admin profile exists in every reachable state, also
\* when change_user_role requests of different admins interleave between
\* their admin-count read and their role write.
C17_AdminAlwaysExists ==
    \E u \in DOMAIN profiles : profiles[u].role = "admin"

\* The assignments a request added for issue i
NewRows(r, i) ==
    {a \in DOMAIN r.assignments \ DOMAIN assignments : r.assignments[a].issue_id = i}

\* C20: bulk_assign_issues with a valid staff member and an authorised
\* actor handles every issue id on its own: processed + failed is the number
\* of issue ids and there is one error string per failure; an id that exists
\* and has no active assignment to the staff member gets exactly one new
\* assignment even when other ids of the list fail, and an id that fails
\* (not found or already assigned) gets no row and its issue is unchanged.
C20_BulkPerIssue ==
    \A actor \in Users, issue_ids \in BulkIdLists, staff_id \in StaffIdInputs,
       notes \in NotesInputs :
        ( /\ staff_id \in DOMAIN profiles
          /\ profiles[staff_id].role = "staff"
          /\ MayAssign(actor, staff_id) ) =>
            \E r \in {bulk_assign_issues_result(actor, issue_ids, staff_id, notes)} :
                /\ r.code = 200
                /\ r.processed + r.failed = Len(issue_ids)
                /\ Len(r.errors) = r.failed
                /\ \A a \in DOMAIN assignments :
                       a \in DOMAIN r.assignments /\ r.assignments[a] = assignments[a]
                /\ \A i \in IssueIdInputs :
                       IF /\ \E k \in 1..Len(issue_ids) : issue_ids[k] = i
                          /\ i \in DOMAIN issues
                          /\ \A a \in PairRows(i, staff_id) :
                                 assignments[a].status \notin Active
                       THEN /\ Cardinality(NewRows(r, i)) = 1
                            /\ \A a \in NewRows(r, i) :
                                   /\ r.assignments[a].staff_id = staff_id
                                   /\ r.assignments[a].status = "assigned"
                       ELSE /\ NewRows(r, i) = {}
                            /\ i \in DOMAIN issues => r.issues[i] = issues[i]

\* C20 witness: a bulk request has just failed on its first id, an issue
\* that was never created, and assigned its second id.
C20_Witness ==
    /\ response.op = "bulk_assign_issues"
    /\ response.code = 200
    /\ response.processed = 1
    /\ response.failed = 1
    /\ Len(response.errors) = 1
    /\ response.errors[1] = [issue_id |-> 2, error |-> "not found"]
    /\ nextIssueId = 2
    /\ \E a \in DOMAIN assignments : assignments[a].issue_id = 1

\* C21 (as claimed): a bulk_assign_issues request by an admin or supervisor
\* never ends in an error response, whatever the staff_id and the
\* department of the target.
C21_BulkNeverErrors ==
    \A actor \in Users, issue_ids \in BulkIdLists, staff_id \in StaffIdInputs,
       notes \in NotesInputs :
        profiles[actor].role \in {"admin", "supervisor"} =>
            bulk_assign_issues_result(actor, issue_ids, staff_id, notes).code = 200

\* C21 (amended): a bulk_assign_issues request by an admin or supervisor is
\* answered 404 when the staff_id is no staff profile and 403 when a
\* supervisor targets staff of another department, both without any write;
\* every other request returns success with the processed and failed counts
\* and one error per failed item.
C21_BulkErrorsOnlyBeforeLoop ==
    \A actor \in Users, issue_ids \in BulkIdLists, staff_id \in StaffIdInputs,
       notes \in NotesInputs :
        profiles[actor].role \in {"admin", "supervisor"} =>
            \E r \in {bulk_assign_issues_result(actor, issue_ids, staff_id, notes)} :
                IF staff_id \notin DOMAIN profiles \/ profiles[staff_id].role # "staff"
                THEN r.code = 404 /\ NoWrite(r)
                ELSE IF OutsideDepartment(actor, staff_id)
                THEN r.code = 403 /\ NoWrite(r)
                ELSE /\ r.code = 200
                     /\ r.processed + r.failed = Len(issue_ids)
                     /\ Len(r.errors) = r.failed

\* C21 witness: an admin's bulk request for a staff_id that is no staff
\* profile has just been answered 404 while an unassigned issue exists.
C21_Witness ==
    /\ response.op = "bulk_assign_issues"
    /\ response.code = 404
    /\ response.detail = "Staff member not found"
    /\ \E i \in DOMAIN issues : assignments_of_issue(assignments, i) = {}

\* The actor may post an update on the issue: an admin, a staff member with
\* an assignment on the issue, or a supervisor when the issue has no
\* assignment or one of its assigned staff is in the supervisor's department.
MayPostUpdate(actor, issue_id) ==
    \/ profiles[actor].role = "admin"
    \/ /\ profiles[actor].role = "staff"
       /\ \E a \in DOMAIN assignments :
              assignments[a].issue_id = issue_id /\ assignments[a].staff_id = actor
    \/ /\ profiles[actor].role = "supervisor"
       /\ \/ \A a \in DOMAIN assignments : assignments[a].issue_id # issue_id
          \/ \E a \in DOMAIN assignments :
                 /\ assignments[a].issue_id = issue_id
                 /\ assignments[a].staff_id \in DOMAIN profiles
                 /\ profiles[assignments[a].staff_id].department
                        = profiles[actor].department

\* C22: create_issue_update inserts an update row only for an actor who may
\* post on the issue (assigned staff, admin, supervisor of an unassigned
\* issue or of an issue with assigned staff in the own department); a
\* citizen, and on an existing issue an unassigned staff member or a
\* supervisor of an issue assigned only to other departments, is answered
\* 403 with no update row inserted.
C22_UpdateOnlyByAuthorised ==
    \A actor \in Users, issue_id \in IssueIdInputs :
        \E r \in {create_issue_update_result(actor, issue_id)} :
            /\ r.store.issue_updates # issue_updates
                   => /\ MayPostUpdate(actor, issue_id)
                      /\ issue_id \in DOMAIN issues
            /\ (profiles[actor].role = "citizen"
                \/ (issue_id \in DOMAIN issues /\ ~MayPostUpdate(actor, issue_id)))
                   => r.code = 403 /\ r.store = Store

\* C22 witness: a supervisor has just been refused on an issue whose only
\* assignments belong to staff of another department.
C22_Witness ==
    /\ response.op = "create_issue_update"
    /\ response.code = 403
    /\ response.detail = "Issue is not assigned to staff in your department"
    /\ \E a \in DOMAIN assignments : assignments[a].staff_id = "staff2"
    /\ issue_updates = EmptyTable

\* C23 (as claimed): whenever create_issue_update inserts an issue_updates
\* row, the same request ends with the success response 201.
C23_InsertedUpdateSucceeds ==
    \A actor \in Users, issue_id \in IssueIdInputs :
        \E r \in {create_issue_update_result(actor, issue_id)} :
            r.store.issue_updates # issue_updates => r.code = 201

\* C24 (as claimed): when the notification fails, a request that passed the
\* checks of create_assignment, update_assignment or create_issue_update
\* still returns success, with the same tables as the run in which the
\* notification is delivered.
C24_NotificationFailureNonFatal ==
    /\ \A actor \in Users, issue_id \in IssueIdInputs, staff_id \in StaffIdInputs,
          notes \in NotesInputs :
           \E r \in {create_assignment_result(actor, issue_id, staff_id, notes)} :
               r.notified = "assigned"
                   => /\ notify_guarded(r, FALSE).code = 201
                      /\ notify_guarded(r, FALSE) = notify_guarded(r, TRUE)
    /\ \A actor \in Users, assignment_id \in AssignmentIdInputs,
          status \in AssignmentStatus, notes \in NotesUpdates :
           \E r \in {update_assignment_result(actor, assignment_id, status, notes)} :
               r.notified = "resolved"
                   => /\ notify_guarded(r, FALSE).code = 200
                      /\ notify_guarded(r, FALSE) = notify_guarded(r, TRUE)
    /\ \A actor \in Users, issue_id \in IssueIdInputs :
           \E r \in {create_issue_update_result(actor, issue_id)} :
               (issue_id \in DOMAIN issues /\ MayPostUpdate(actor, issue_id))
                   => /\ notify_guarded(r, FALSE).code = 201
                      /\ notify_guarded(r, FALSE) = notify_guarded(r, TRUE)

\* C27: in every state reached by complete create_assignment,
\* bulk_assign_issues, update_assignment and delete_assignment requests, an
\* issue that has at least one assignment row does not have status pending.
C27_AssignedIssueNotPending ==
    \A i \in DOMAIN issues :
        assignments_of_issue(assignments, i) # {} => issues[i].status # "pending"

\* C27 witness: a delete_assignment has just removed one of two assignments
\* of an issue, and the issue still is not pending.
C27_Witness ==
    /\ response.op = "delete_assignment"
    /\ response.code = 200
    /\ \E i \in DOMAIN issues :
           /\ assignments_of_issue(assignments, i) # {}
           /\ issues[i].status = "in_progress"

\* C30: delete_assignment changes an issue's status only when no assignment
\* of that issue remains; when one remains the issues table is left exactly
\* as it was, even if every remaining assignment is completed; and
\* update_assignment with status assigned never changes the issues table.
C30_StatusFrame ==
    /\ \A actor \in Users, assignment_id \in AssignmentIdInputs :
           \E r \in {delete_assignment_result(actor, assignment_id)} :
               r.issues # issues
                   => /\ assignment_id \in DOMAIN assignments
                      /\ assignments_of_issue(r.assignments,
                                              assignments[assignment_id].issue_id) = {}
    /\ \A actor \in Users, assignment_id \in AssignmentIdInputs, notes \in NotesUpdates :
           update_assignment_result(actor, assignment_id, "assigned", notes).issues = issues

\* C30 witness: a delete_assignment has just succeeded and left an issue
\* in_progress whose remaining assignments are all completed.
C30_Witness ==
    /\ response.op = "delete_assignment"
    /\ response.code = 200
    /\ \E i \in DOMAIN issues :
           /\ assignments_of_issue(assignments, i) # {}
           /\ all_completed(assignments, i)
           /\ issues[i].status = "in_progress"

\* C25: a create_assignment that has passed its duplicate check inserts its
\* row without looking at the table again, so two concurrent requests for
\* the same pair that both pass the check before either inserts leave two
\* active assignments for the pair.
C25_InsertAfterCheckUnconditional ==
    [][\A w \in Workers :
           (inflight[w].op = "create_assignment" /\ inflight[w].pc = 2
            /\ inflight'[w] # inflight[w])
               => /\ DOMAIN assignments' = DOMAIN assignments \cup {inflight'[w].id}
                  /\ inflight'[w].id \notin DOMAIN assignments
                  /\ assignments'[inflight'[w].id].status = "assigned"
                  /\ assignments'[inflight'[w].id].issue_id = inflight[w].issue_id
                  /\ assignments'[inflight'[w].id].staff_id = inflight[w].staff_id]_vars

\* C25 witness: two create_assignment requests have completed and the table
\* holds two assigned rows for the same (issue_id, staff_id) pair.
C25_Witness ==
    /\ AllIdle
    /\ response.op = "create_assignment"
    /\ response.code = 201
    /\ \E a, b \in DOMAIN assignments :
           /\ a # b
           /\ assignments[a].issue_id = assignments[b].issue_id
           /\ assignments[a].staff_id = assignments[b].staff_id
           /\ assignments[a].status = "assigned"
           /\ assignments[b].status = "assigned"

\* C28 (as claimed): once no request is in flight, no issue has status
\* pending while it has an active (assigned or in_progress) assignment.
C28_NoPendingWithActive ==
    AllIdle =>
        \A i \in DOMAIN issues :
            issues[i].status = "pending"
                => \A a \in assignments_of_issue(assignments, i) :
                       assignments[a].status \notin Active

\* C29: when the update_assignment requests that complete the assignments
\* of an issue run concurrently, then once none is in flight an issue whose
\* assignments are all completed has status resolved.
C29_ConcurrentCompletionsResolve ==
    AllIdle =>
        \A i \in DOMAIN issues :
            (assignments_of_issue(assignments, i) # {} /\ all_completed(assignments, i))
                => issues[i].status = "resolved"

\* C29 witness: both assignments of an issue are completed and the issue is
\* resolved after two interleaved requests, the one that finished last having
\* read the assignments before the other wrote its row.
C29_Witness ==
    /\ AllIdle
    /\ response.op = "update_assignment"
    /\ response.code = 200
    /\ response.notified = None
    /\ \E i \in DOMAIN issues :
           /\ Cardinality(assignments_of_issue(assignments, i)) = 2
           /\ all_completed(assignments, i)
           /\ issues[i].status = "resolved"

\* C26 (as claimed): when a store call raises inside create_assignment,
\* update_assignment, delete_assignment or bulk_assign_issues, neither the
\* error detail nor any per-issue error string of the response is the text
\* of the raised exception.
C26_NoExceptionTextReturned ==
    \A fn \in StoreFunctions, actor \in Users :
        /\ \A issue_id \in IssueIdInputs, staff_id \in StaffIdInputs, notes \in NotesInputs :
               create_assignment_raising(actor, issue_id, staff_id, notes, fn).detail
                   \notin ExceptionTexts
        /\ \A assignment_id \in AssignmentIdInputs, status \in AssignmentStatus,
              notes \in NotesUpdates :
               update_assignment_raising(actor, assignment_id, status, notes, fn).detail
                   \notin ExceptionTexts
        /\ \A assignment_id \in AssignmentIdInputs :
               delete_assignment_raising(actor, assignment_id, fn).detail
                   \notin ExceptionTexts
        /\ \A issue_ids \in BulkIdLists, staff_id \in StaffIdInputs, notes \in NotesInputs :
               \E r \in {bulk_assign_issues_raising(actor, issue_ids, staff_id, notes, fn)} :
                   /\ r.detail \notin ExceptionTexts
                   /\ \A k \in 1..Len(r.errors) : r.errors[k].error \notin ExceptionTexts

====
